---------------------------- MODULE Spec2Model ----------------------------
(***************************************************************************)
(* Campus distribution calculation: the scoring and ranking pipeline of    *)
(* CalculationService over the Google Sheets backed DistributionRepository.*)
(*                                                                         *)
(* Representation.                                                         *)
(*  - A Python str is a sequence of text segments, each one either a       *)
(*    whitespace character or free of whitespace, so that strip(),         *)
(*    emptiness and int() are computed and not assumed.                    *)
(*  - A Python float x is the integer x * DISTANCE_NORMALIZATION_FACTOR    *)
(*    (fixed point in units of 1/500).  The distances of the model are     *)
(*    multiples of 125 km, for which km / 500.0 and every product and sum  *)
(*    below are exact in binary floating point as well.                    *)
(*  - A sheet cell is a tagged value [t, v, s]: t = "int" (v the integer), *)
(*    t = "bool" (v = 1 for True, 0 for False), t = "float" (v the float), *)
(*    t = "str" (s the string).                                            *)
(*  - A dict is a function whose DOMAIN is its key set.                    *)
(***************************************************************************)
EXTENDS Integers, Sequences, FiniteSets, TLC

\* ------------------------------------------------------------------ bounds
MaxStudentRows == 3   \* rows of the students sheet
MaxWeightRows == 2    \* rows of the weights sheet
MaxCoef == 1          \* largest coefficient of a drawn weight record
MaxDistSteps == 2     \* distances 0, 125, .. 125 * MaxDistSteps km
MaxRank == 4          \* length of a list drawn for the ranker
MaxWeightList == 3    \* length of a list drawn for the weight table builder
MaxConcRows == 1      \* rows of the students sheet when two requests arrive
MaxFlagCell == 2      \* integer cells -1 .. MaxFlagCell of a binary column
MaxKmSteps == 5       \* distance cells -125, 0, .. 125 * MaxKmSteps km
MaxParseRows == 2     \* rows of a students sheet with rows of every kind
MaxNormList == 3      \* length of a list drawn for the normalizer
MaxSubmissions == 1   \* form submissions processed

\* --------------------------------------------------------------- constants
DISTANCE_NORMALIZATION_FACTOR == 500

Runs == {1, 2}

max(a, b) == IF a >= b THEN a ELSE b
min(a, b) == IF a <= b THEN a ELSE b

SeqsUpTo(S, n) == UNION {[1..k -> S] : k \in 0..n}

\* ----------------------------------------------------------------- strings
WHITESPACE == {" "}

RECURSIVE lstrip(_)
lstrip(s) ==
    IF s # <<>> /\ Head(s) \in WHITESPACE THEN lstrip(Tail(s)) ELSE s

RECURSIVE rstrip(_)
rstrip(s) ==
    IF s # <<>> /\ s[Len(s)] \in WHITESPACE
    THEN rstrip(SubSeq(s, 1, Len(s) - 1)) ELSE s

strip(s) == rstrip(lstrip(s))

\* ------------------------------------------------------------------ floats
float(n) == n * DISTANCE_NORMALIZATION_FACTOR
\* floor division (//) in place of true division (/)
floordiv(x, d) == float((x \div DISTANCE_NORMALIZATION_FACTOR) \div d)

truediv(x, d) == x \div d

\* the outcome of a constructor or conversion that may raise
Invalid == [ok |-> FALSE]
Valid(x) == [ok |-> TRUE, value |-> x]

\* ------------------------------------------------------------- sheet cells
IntCell(n) == [t |-> "int", v |-> n, s |-> <<>>]
BoolCell(b) == [t |-> "bool", v |-> IF b THEN 1 ELSE 0, s |-> <<>>]
FloatCell(x) == [t |-> "float", v |-> x, s |-> <<>>]
StrCell(str) == [t |-> "str", v |-> 0, s |-> str]

DIGITS == <<"0", "1", "2", "3", "4", "5", "6", "7", "8", "9">>

DigitValue(c) == (CHOOSE i \in 1..10 : DIGITS[i] = c) - 1

RECURSIVE DecimalValue(_)
DecimalValue(digits) ==
    IF digits = <<>> THEN 0
    ELSE 10 * DecimalValue(SubSeq(digits, 1, Len(digits) - 1))
         + DigitValue(digits[Len(digits)])

\* int(v) of Python: [ok, value], ok = FALSE for ValueError / TypeError
py_int(c) ==
    IF c.t \in {"int", "bool"} THEN Valid(c.v)
    ELSE IF c.t = "float"
    THEN Valid(IF c.v >= 0 THEN c.v \div DISTANCE_NORMALIZATION_FACTOR
               ELSE -((-c.v) \div DISTANCE_NORMALIZATION_FACTOR))
    ELSE LET text == strip(c.s)
             signed == text # <<>> /\ text[1] \in {"-", "+"}
             digits == IF signed THEN Tail(text) ELSE text
         IN  IF digits = <<>> \/ \E i \in 1..Len(digits) :
                                     \A d \in 1..10 : DIGITS[d] # digits[i]
             THEN Invalid
             ELSE Valid(IF signed /\ text[1] = "-"
                        THEN -DecimalValue(digits) ELSE DecimalValue(digits))

\* cast_binary_to_int without max(0, min(1, ..)): the integer is kept
cast_binary_unclamped(c) ==
    IF c.t = "bool" THEN (IF c.v = 1 THEN 1 ELSE 0)
    ELSE IF c.t # "int"
    THEN (IF py_int(c).ok THEN py_int(c).value ELSE 0)
    ELSE c.v

\* StudentDistribution.cast_binary_to_int
cast_binary_to_int(c) ==
    IF c.t = "bool" THEN (IF c.v = 1 THEN 1 ELSE 0)
    ELSE IF c.t # "int"
    THEN (IF py_int(c).ok THEN max(0, min(1, py_int(c).value)) ELSE 0)
    ELSE max(0, min(1, c.v))

\* StudentDistribution.cast_distance
cast_distance(c) ==
    IF c.t \notin {"int", "bool"}
    THEN (IF py_int(c).ok THEN max(0, py_int(c).value) ELSE 0)
    ELSE max(0, c.v)

\* cast_to_positive_int without max(0, ..): the sign is kept
cast_to_int(c) ==
    IF c.t \notin {"int", "bool"}
    THEN (IF py_int(c).ok THEN py_int(c).value ELSE 0)
    ELSE c.v

\* InstituteWeights.cast_to_positive_int
cast_to_positive_int(c) ==
    IF c.t \notin {"int", "bool"}
    THEN (IF py_int(c).ok THEN max(0, py_int(c).value) ELSE 0)
    ELSE max(0, c.v)

\* StudentDistribution.normalize_string_fields, InstituteWeights.normalize_institute_name
normalize_string_fields(v) == IF v # <<>> THEN strip(v) ELSE <<>>

\* StudentDistribution(**record): field validators, then validate_student_data
StudentDistribution(record) ==
    LET m == [fio          |-> normalize_string_fields(record.fio),
              gender       |-> record.gender,
              institute    |-> normalize_string_fields(record.institute),
              svo          |-> cast_binary_to_int(record.svo),
              chaes        |-> cast_binary_to_int(record.chaes),
              disability   |-> cast_binary_to_int(record.disability),
              smoking      |-> cast_binary_to_int(record.smoking),
              distance     |-> cast_distance(record.distance),
              large_family |-> cast_binary_to_int(record.large_family)]
    IN  IF strip(m.fio) = <<>> THEN Invalid
        ELSE IF strip(m.institute) = <<>> THEN Invalid
        ELSE Valid(m)

\* InstituteWeights(**record): field validators, then validate_weights
InstituteWeights(record) ==
    LET m == [institute           |-> normalize_string_fields(record.institute),
              institute_score     |-> cast_to_positive_int(record.institute_score),
              svo_weight          |-> cast_to_positive_int(record.svo_weight),
              chaes_weight        |-> cast_to_positive_int(record.chaes_weight),
              disability_weight   |-> cast_to_positive_int(record.disability_weight),
              distance_weight     |-> cast_to_positive_int(record.distance_weight),
              large_family_weight |-> cast_to_positive_int(record.large_family_weight)]
    IN  IF strip(m.institute) = <<>> THEN Invalid
        ELSE IF m.institute_score < 0 THEN Invalid
        ELSE Valid(m)

\* the values of the constructions that did not raise, in order
RECURSIVE Accepted(_)
Accepted(results) ==
    IF results = <<>> THEN <<>>
    ELSE IF Head(results).ok
         THEN <<Head(results).value>> \o Accepted(Tail(results))
         ELSE Accepted(Tail(results))

\* _parse_student_records that raises at the first record it cannot parse
_parse_student_records_strict(records) ==
    LET students == Accepted([i \in 1..Len(records) |-> StudentDistribution(records[i])])
    IN  IF Len(students) < Len(records)
        THEN [raised |-> <<"DataValidationError">>]
        ELSE [raised |-> <<>>, value |-> students,
              parse_errors |-> Len(records) - Len(students)]

\* DistributionRepository._parse_student_records
_parse_student_records(records) ==
    LET students == Accepted([i \in 1..Len(records) |-> StudentDistribution(records[i])])
    IN  IF students = <<>> /\ records # <<>>
        THEN [raised |-> <<"DataValidationError">>]
        ELSE [raised |-> <<>>, value |-> students,
              parse_errors |-> Len(records) - Len(students)]

\* DistributionRepository._parse_weight_records
_parse_weight_records(records) ==
    LET weights == Accepted([i \in 1..Len(records) |-> InstituteWeights(records[i])])
    IN  IF weights = <<>> /\ records # <<>>
        THEN [raised |-> <<"DataValidationError">>]
        ELSE [raised |-> <<>>, value |-> weights,
              parse_errors |-> Len(records) - Len(weights)]

\* ------------------------------------------------------ CalculationService
\* bool(str(n)): a string that is not empty is true
bool_of_str(n) == TRUE

bool(n) == n # 0
int(b) == IF b THEN 1 ELSE 0

\* NormalizedStudent(...): validate_normalized_data
NormalizedStudent(m) ==
    IF strip(m.fio) = <<>> THEN Invalid
    ELSE IF m.distance < 0 THEN Invalid
    ELSE Valid(m)

\* the body of the loop with the fraction capped at the reference distance
NormalizeOneCapped(student) ==
    NormalizedStudent(
        [fio          |-> student.fio,
         gender       |-> student.gender,
         institute    |-> student.institute,
         svo          |-> bool(student.svo),
         chaes        |-> bool(student.chaes),
         disability   |-> bool(student.disability),
         smoking      |-> bool(student.smoking),
         distance     |-> min(float(1),
                              truediv(float(student.distance), DISTANCE_NORMALIZATION_FACTOR)),
         large_family |-> bool(student.large_family)])

\* the body of the loop of _normalize_student_data
NormalizeOne(student) ==
    NormalizedStudent(
        [fio          |-> student.fio,
         gender       |-> student.gender,
         institute    |-> student.institute,
         svo          |-> bool(student.svo),
         chaes        |-> bool(student.chaes),
         disability   |-> bool(student.disability),
         smoking      |-> bool(student.smoking),
         distance     |-> truediv(float(student.distance), DISTANCE_NORMALIZATION_FACTOR),
         large_family |-> bool(student.large_family)])

\* CalculationService._normalize_student_data
_normalize_student_data(students) ==
    LET normalized == Accepted([i \in 1..Len(students) |-> NormalizeOne(students[i])])
    IN  IF normalized = <<>>
        THEN [raised |-> <<"DataValidationError">>]
        ELSE [raised |-> <<>>, value |-> normalized]

EmptyDict == [k \in {} |-> k]

\* dict.setdefault in place of the assignment: the first record is kept
DictSetDefault(d, key, val) ==
    [k \in DOMAIN d \cup {key} |-> IF k \in DOMAIN d THEN d[k] ELSE val]

\* weights_dict[key] = val
DictSet(d, key, val) ==
    [k \in DOMAIN d \cup {key} |-> IF k = key THEN val ELSE d[k]]

\* CalculationService._create_weights_dictionary
RECURSIVE _create_weights_dictionary(_)
_create_weights_dictionary(weights) ==
    IF weights = <<>> THEN EmptyDict
    ELSE LET weight == weights[Len(weights)]
             weights_dict == _create_weights_dictionary(SubSeq(weights, 1, Len(weights) - 1))
         IN  IF weight.institute # <<>>
             THEN DictSet(weights_dict, weight.institute, weight)
             ELSE weights_dict

\* ScoredStudent(...): validate_scores
ScoredStudent(m) ==
    IF m.total_score < 0 THEN Invalid ELSE Valid(m)

\* __lt__ that puts the lower total score first within a group
__lt__lower_first(self, other) ==
    IF self.priority # other.priority
    THEN self.priority /\ ~other.priority
    ELSE self.total_score < other.total_score

\* ScoredStudent.__lt__
__lt__(self, other) ==
    IF self.priority # other.priority
    THEN self.priority /\ ~other.priority
    ELSE self.total_score > other.total_score

\* the place of x in a list sorted by __lt__: in front of the first element
\* that x is less than, behind every other (sorted() is stable)
RECURSIVE InsertByLt(_, _)
InsertByLt(list, x) ==
    IF list = <<>> THEN <<x>>
    ELSE IF __lt__(x, Head(list))
         THEN <<x>> \o list
         ELSE <<Head(list)>> \o InsertByLt(Tail(list), x)

\* sorted(students): the comparison of the elements is __lt__
RECURSIVE py_sorted(_)
py_sorted(students) ==
    IF students = <<>> THEN <<>>
    ELSE InsertByLt(py_sorted(SubSeq(students, 1, Len(students) - 1)),
                    students[Len(students)])

\* a lookup that falls back to coefficients of zero for a missing institute
lookup_or_zero(weights, institute) ==
    IF institute \in DOMAIN weights THEN Valid(weights[institute])
    ELSE Valid([institute |-> institute, institute_score |-> 0,
                svo_weight |-> 0, chaes_weight |-> 0, disability_weight |-> 0,
                distance_weight |-> 0, large_family_weight |-> 0])

\* weights.get(student.institute); raise ValueError if there is none
lookup(weights, institute) ==
    IF institute \in DOMAIN weights THEN Valid(weights[institute]) ELSE Invalid

\* the priority status with the disability flag left out
priority_without_disability(student) == student.svo \/ student.chaes

\* _calculate_single_student_score: "Determine priority status"
priority_status(student) == student.svo \/ student.chaes \/ student.disability

\* CalculationService._calculate_single_student_score
_calculate_single_student_score(student, weights) ==
    IF ~lookup(weights, student.institute).ok THEN Invalid
    ELSE
    LET institute_weights == lookup(weights, student.institute).value
        svo_score == int(student.svo) * institute_weights.svo_weight
        chaes_score == int(student.chaes) * institute_weights.chaes_weight
        disability_score == int(student.disability) * institute_weights.disability_weight
        smoking_score == int(student.smoking) * 1
        distance_score == student.distance * institute_weights.distance_weight
        large_family_score == int(student.large_family) * institute_weights.large_family_weight
        total_score == float(institute_weights.institute_score
                             + svo_score + chaes_score + disability_score
                             + smoking_score)
                       + distance_score + float(large_family_score)
        priority == priority_status(student)
    IN  ScoredStudent(
            [fio                |-> student.fio,
             gender             |-> student.gender,
             institute_score    |-> institute_weights.institute_score,
             svo_score          |-> svo_score,
             chaes_score        |-> chaes_score,
             disability_score   |-> disability_score,
             smoking_score      |-> smoking_score,
             distance_score     |-> distance_score,
             large_family_score |-> large_family_score,
             total_score        |-> total_score,
             priority           |-> priority])

\* _calculate_student_scores that gives up at the first student it cannot score
_calculate_student_scores_all_or_nothing(students, weights) ==
    LET scored_students ==
            Accepted([i \in 1..Len(students) |->
                         _calculate_single_student_score(students[i], weights)])
        calculation_errors == Len(students) - Len(scored_students)
    IN  IF calculation_errors > 0
        THEN [raised |-> <<"CalculationError">>, calculation_errors |-> calculation_errors]
        ELSE [raised |-> <<>>, value |-> scored_students,
              calculation_errors |-> calculation_errors]

\* CalculationService._calculate_student_scores
_calculate_student_scores(students, weights) ==
    LET scored_students ==
            Accepted([i \in 1..Len(students) |->
                         _calculate_single_student_score(students[i], weights)])
        calculation_errors == Len(students) - Len(scored_students)
    IN  IF scored_students = <<>>
        THEN [raised |-> <<"CalculationError">>, calculation_errors |-> calculation_errors]
        ELSE [raised |-> <<>>, value |-> scored_students,
              calculation_errors |-> calculation_errors]

\* InsertDescending that puts x in front of the elements of equal key
RECURSIVE InsertDescendingUnstable(_, _)
InsertDescendingUnstable(sorted, x) ==
    IF sorted = <<>> THEN <<x>>
    ELSE IF Head(sorted).total_score > x.total_score
         THEN <<Head(sorted)>> \o InsertDescendingUnstable(Tail(sorted), x)
         ELSE <<x>> \o sorted

\* the place of x in a list already sorted by total_score, descending:
\* behind every element whose key is not smaller (list.sort is stable)
RECURSIVE InsertDescending(_, _)
InsertDescending(sorted, x) ==
    IF sorted = <<>> THEN <<x>>
    ELSE IF Head(sorted).total_score >= x.total_score
         THEN <<Head(sorted)>> \o InsertDescending(Tail(sorted), x)
         ELSE <<x>> \o sorted

\* the sort left out: the list stays as it is
sort_omitted(students) == students

\* list.sort(key=lambda x: x.total_score, reverse=True)
RECURSIVE sort_by_total_score_reverse(_)
sort_by_total_score_reverse(students) ==
    IF students = <<>> THEN <<>>
    ELSE InsertDescending(
             sort_by_total_score_reverse(SubSeq(students, 1, Len(students) - 1)),
             students[Len(students)])

IsPriority(s) == s.priority

\* the second group taken without its filter: every student is in it
IsAnyStudent(s) == TRUE

IsRegular(s) == ~s.priority

\* _rank_students as one sort by total score, without the two groups
_rank_students_by_score_only(students) == sort_by_total_score_reverse(students)

\* CalculationService._rank_students
_rank_students(students) ==
    LET priority_students == sort_by_total_score_reverse(SelectSeq(students, IsPriority))
        regular_students == sort_by_total_score_reverse(SelectSeq(students, IsRegular))
    IN  priority_students \o regular_students

\* round(x, 2) of a float
round2(x) ==
    LET cent == DISTANCE_NORMALIZATION_FACTOR \div 100
        low == (x \div cent) * cent
    IN  IF 2 * (x - low) > cent THEN low + cent ELSE low

\* the header row written by save_data (column titles, transliterated)
headers ==
    <<StrCell(<<"FIO">>), StrCell(<<"Pol">>), StrCell(<<"BallyZaInstitut">>),
      StrCell(<<"SVO">>), StrCell(<<"ChAES">>), StrCell(<<"Invalidnost">>),
      StrCell(<<"Kurenie">>), StrCell(<<"Rasstoyanie">>),
      StrCell(<<"MnogodetnayaSemya">>), StrCell(<<"ObshchiyBall">>),
      StrCell(<<"Prioritet">>)>>

\* the row written by save_data for one student
ResultRow(student) ==
    <<StrCell(student.fio),
      StrCell(student.gender),
      IntCell(student.institute_score),
      IntCell(student.svo_score),
      IntCell(student.chaes_score),
      IntCell(student.disability_score),
      IntCell(student.smoking_score),
      FloatCell(round2(student.distance_score)),
      IntCell(student.large_family_score),
      FloatCell(round2(student.total_score)),
      StrCell(IF student.priority THEN <<"Da">> ELSE <<"Net">>)>>

\* ------------------------------------------------------------------- state
VARIABLES
    students_sheet,   \* worksheet settings.students_sheet_index: its records
    weights_sheet,    \* worksheet settings.weights_sheet_index: its records
    results_sheet,    \* worksheet settings.results_sheet_index: its rows
    run,              \* run[r]: the frame of one calculate_distribution call
    form_log          \* the form submissions processed so far and their results

vars == <<students_sheet, weights_sheet, results_sheet, run, form_log>>

\* CalculateResponse of POST /calculate (the message is left out)
CalculateResponse(success, students_count) ==
    [sent |-> TRUE, success |-> success, students_count |-> students_count]

NoResponse == [sent |-> FALSE, success |-> FALSE, students_count |-> 0]

\* the frame of a call that has not started
IdleFrame ==
    [pc                  |-> "Idle",
     raw_students        |-> <<>>,
     raw_weights         |-> <<>>,
     normalized_students |-> <<>>,
     weights_dict        |-> EmptyDict,
     scored_students     |-> <<>>,
     calculation_errors  |-> 0,
     parse_errors        |-> 0,          \* student records the repository skipped
     ranked_students     |-> <<>>,
     save_pc             |-> "clear",
     save_i              |-> 1,
     calls               |-> <<>>,       \* repository methods called so far
     error               |-> <<>>,       \* raised exception and its causes
     result              |-> <<>>,       \* the returned list
     sink_before         |-> <<>>,       \* results sheet when the call began
     save_after          |-> {},         \* the runs that had called save_ranking before
     raced               |-> FALSE,      \* one of them was still in save_data
     response            |-> NoResponse] \* what POST /calculate answers

\* except Exception as e: raise CalculationError(...)
Raise(frame, chain) ==
    [frame EXCEPT !.pc = "Failed", !.error = <<"CalculationError">> \o chain,
                  !.response = CalculateResponse(FALSE, 0)]

\* ----------------------------------------------------------------- actions
\* calculate_distribution that reads the weights before the students
StartWithWeights(r) ==
    /\ run[r].pc = "Idle"
    /\ run' = [run EXCEPT ![r] = [@ EXCEPT !.pc = "FetchingWeights",
                                            !.sink_before = results_sheet]]
    /\ UNCHANGED <<students_sheet, weights_sheet, results_sheet, form_log>>

\* POST /calculate: a CalculationService is built and calculate_distribution starts
Start(r) ==
    /\ run[r].pc = "Idle"
    /\ run' = [run EXCEPT ![r] = [@ EXCEPT !.pc = "FetchingStudents",
                                            !.sink_before = results_sheet]]
    /\ UNCHANGED <<students_sheet, weights_sheet, results_sheet, form_log>>

\* _retrieve_student_data that passes an empty list of students on
FetchStudentsUnchecked(r) ==
    /\ run[r].pc = "FetchingStudents"
    /\ LET frame == [run[r] EXCEPT !.calls = Append(@, "get_students")]
       IN  \E sheet_ok \in BOOLEAN :
              run' = [run EXCEPT ![r] =
                 IF ~sheet_ok
                 THEN Raise(frame, <<"SheetNotFoundError", "SheetNotFoundError">>)
                 ELSE LET parsed == _parse_student_records(students_sheet)
                      IN  IF parsed.raised # <<>>
                          THEN Raise(frame, <<"SheetNotFoundError">> \o parsed.raised)
                          ELSE [frame EXCEPT !.raw_students = parsed.value,
                                             !.parse_errors = parsed.parse_errors,
                                             !.pc = "FetchingWeights"]]
    /\ UNCHANGED <<students_sheet, weights_sheet, results_sheet, form_log>>

\* _retrieve_student_data: repository.get_students and the emptiness check
FetchStudents(r) ==
    /\ run[r].pc = "FetchingStudents"
    /\ LET frame == [run[r] EXCEPT !.calls = Append(@, "get_students")]
       IN  \E sheet_ok \in BOOLEAN :
              run' = [run EXCEPT ![r] =
                 IF ~sheet_ok
                 THEN Raise(frame, <<"SheetNotFoundError", "SheetNotFoundError">>)
                 ELSE IF students_sheet = <<>>
                 THEN Raise(frame, <<"DataValidationError">>)
                 ELSE LET parsed == _parse_student_records(students_sheet)
                      IN  IF parsed.raised # <<>>
                          THEN Raise(frame, <<"SheetNotFoundError">> \o parsed.raised)
                          ELSE IF parsed.value = <<>>
                          THEN Raise(frame, <<"DataValidationError">>)
                          ELSE [frame EXCEPT !.raw_students = parsed.value,
                                             !.parse_errors = parsed.parse_errors,
                                             !.pc = "FetchingWeights"]]
    /\ UNCHANGED <<students_sheet, weights_sheet, results_sheet, form_log>>

\* _retrieve_weight_data: repository.get_institute_weights and the emptiness check
FetchWeights(r) ==
    /\ run[r].pc = "FetchingWeights"
    /\ LET frame == [run[r] EXCEPT !.calls = Append(@, "get_institute_weights")]
       IN  \E sheet_ok \in BOOLEAN :
              run' = [run EXCEPT ![r] =
                 IF ~sheet_ok
                 THEN Raise(frame, <<"SheetNotFoundError", "SheetNotFoundError">>)
                 ELSE IF weights_sheet = <<>>
                 THEN Raise(frame, <<"DataValidationError">>)
                 ELSE LET parsed == _parse_weight_records(weights_sheet)
                      IN  IF parsed.raised # <<>>
                          THEN Raise(frame, <<"SheetNotFoundError">> \o parsed.raised)
                          ELSE IF parsed.value = <<>>
                          THEN Raise(frame, <<"DataValidationError">>)
                          ELSE [frame EXCEPT !.raw_weights = parsed.value,
                                             !.pc = "Normalizing"]]
    /\ UNCHANGED <<students_sheet, weights_sheet, results_sheet, form_log>>

\* a service that keeps the normalized students of the first call and
\* hands them to the calls that follow
NormalizeCached(r) ==
    /\ run[r].pc = "Normalizing"
    /\ LET cached == {q \in Runs : run[q].normalized_students # <<>>}
           normalized == IF cached = {}
                         THEN _normalize_student_data(run[r].raw_students)
                         ELSE [raised |-> <<>>,
                               value |-> run[CHOOSE q \in cached : TRUE].normalized_students]
       IN  run' = [run EXCEPT ![r] =
              IF normalized.raised # <<>>
              THEN Raise(@, normalized.raised)
              ELSE [@ EXCEPT !.normalized_students = normalized.value,
                             !.weights_dict = _create_weights_dictionary(run[r].raw_weights),
                             !.pc = "Scoring"]]
    /\ UNCHANGED <<students_sheet, weights_sheet, results_sheet, form_log>>

\* _normalize_student_data, then _create_weights_dictionary
Normalize(r) ==
    /\ run[r].pc = "Normalizing"
    /\ LET normalized == _normalize_student_data(run[r].raw_students)
       IN  run' = [run EXCEPT ![r] =
              IF normalized.raised # <<>>
              THEN Raise(@, normalized.raised)
              ELSE [@ EXCEPT !.normalized_students = normalized.value,
                             !.weights_dict = _create_weights_dictionary(run[r].raw_weights),
                             !.pc = "Scoring"]]
    /\ UNCHANGED <<students_sheet, weights_sheet, results_sheet, form_log>>

\* _calculate_student_scores that returns the empty list when no student
\* could be scored
ScoreLenient(r) ==
    /\ run[r].pc = "Scoring"
    /\ LET scored == _calculate_student_scores(run[r].normalized_students,
                                               run[r].weights_dict)
           frame == [run[r] EXCEPT !.calculation_errors = scored.calculation_errors]
       IN  run' = [run EXCEPT ![r] =
              [frame EXCEPT !.scored_students =
                                IF scored.raised # <<>> THEN <<>> ELSE scored.value,
                            !.pc = "Ranking"]]
    /\ UNCHANGED <<students_sheet, weights_sheet, results_sheet, form_log>>

\* _calculate_student_scores
Score(r) ==
    /\ run[r].pc = "Scoring"
    /\ LET scored == _calculate_student_scores(run[r].normalized_students,
                                               run[r].weights_dict)
           frame == [run[r] EXCEPT !.calculation_errors = scored.calculation_errors]
       IN  run' = [run EXCEPT ![r] =
              IF scored.raised # <<>>
              THEN Raise(frame, scored.raised)
              ELSE [frame EXCEPT !.scored_students = scored.value,
                                 !.pc = "Ranking"]]
    /\ UNCHANGED <<students_sheet, weights_sheet, results_sheet, form_log>>

\* _rank_students
Rank(r) ==
    /\ run[r].pc = "Ranking"
    /\ run' = [run EXCEPT ![r] =
                  [@ EXCEPT !.ranked_students = _rank_students(run[r].scored_students),
                            !.pc = "Persisting",
                            !.save_pc = "clear",
                            !.save_i = 1]]
    /\ UNCHANGED <<students_sheet, weights_sheet, results_sheet, form_log>>

\* a gspread call of save_data raised and the exception is swallowed:
\* calculate_distribution returns ranked_students all the same
SaveRaiseSwallowed(frame) ==
    [frame EXCEPT !.pc = "Done", !.result = frame.ranked_students]

\* a gspread call of save_data raised: SheetNotFoundError in save_data,
\* wrapped by save_ranking, wrapped by calculate_distribution
SaveRaise(frame) ==
    Raise(frame, <<"SheetNotFoundError", "SheetNotFoundError">>)

\* run q is inside save_data: it may have cleared the sheet and is writing
Saving(q) == run[q].pc = "Persisting" /\ run[q].save_pc # "clear"

\* run q has left save_data, by return or by exception
Saved(q) ==
    /\ run[q].pc \in {"Done", "Failed"}
    /\ "save_ranking" \in {run[q].calls[k] : k \in 1..Len(run[q].calls)}

\* save_data without sheet.clear(): the rows are appended to what is there
SaveClearKeepsRows(r) ==
    /\ run[r].pc = "Persisting"
    /\ run[r].save_pc = "clear"
    /\ LET frame == [run[r] EXCEPT !.calls = Append(@, "save_ranking"),
                                   !.save_after = {q \in Runs \ {r} : Saving(q) \/ Saved(q)},
                                   !.raced = \E q \in Runs \ {r} : Saving(q)]
       IN  \E api_ok \in BOOLEAN :
              IF api_ok
              THEN /\ results_sheet' = results_sheet
                   /\ run' = [run EXCEPT ![r] = [frame EXCEPT !.save_pc = "headers"]]
              ELSE /\ results_sheet' = results_sheet
                   /\ run' = [run EXCEPT ![r] = SaveRaise(frame)]
    /\ UNCHANGED <<students_sheet, weights_sheet, form_log>>

\* _save_results -> save_ranking -> save_data: worksheets() and sheet.clear()
SaveClear(r) ==
    /\ run[r].pc = "Persisting"
    /\ run[r].save_pc = "clear"
    /\ LET frame == [run[r] EXCEPT !.calls = Append(@, "save_ranking"),
                                   !.save_after = {q \in Runs \ {r} : Saving(q) \/ Saved(q)},
                                   !.raced = \E q \in Runs \ {r} : Saving(q)]
       IN  \E api_ok \in BOOLEAN :
              IF api_ok
              THEN /\ results_sheet' = <<>>
                   /\ run' = [run EXCEPT ![r] = [frame EXCEPT !.save_pc = "headers"]]
              ELSE /\ results_sheet' = results_sheet
                   /\ run' = [run EXCEPT ![r] = SaveRaise(frame)]
    /\ UNCHANGED <<students_sheet, weights_sheet, form_log>>

\* save_data that appends no header row
SaveHeadersSkipped(r) ==
    /\ run[r].pc = "Persisting"
    /\ run[r].save_pc = "headers"
    /\ \E api_ok \in BOOLEAN :
          IF api_ok
          THEN /\ results_sheet' = results_sheet
               /\ run' = [run EXCEPT ![r] = [@ EXCEPT !.save_pc = "rows"]]
          ELSE /\ results_sheet' = results_sheet
               /\ run' = [run EXCEPT ![r] = SaveRaise(@)]
    /\ UNCHANGED <<students_sheet, weights_sheet, form_log>>

\* save_data: sheet.append_row(headers)
SaveHeaders(r) ==
    /\ run[r].pc = "Persisting"
    /\ run[r].save_pc = "headers"
    /\ \E api_ok \in BOOLEAN :
          IF api_ok
          THEN /\ results_sheet' = Append(results_sheet, headers)
               /\ run' = [run EXCEPT ![r] = [@ EXCEPT !.save_pc = "rows"]]
          ELSE /\ results_sheet' = results_sheet
               /\ run' = [run EXCEPT ![r] = SaveRaise(@)]
    /\ UNCHANGED <<students_sheet, weights_sheet, form_log>>

\* save_data: one iteration of the loop, sheet.append_row(row)
SaveRow(r) ==
    /\ run[r].pc = "Persisting"
    /\ run[r].save_pc = "rows"
    /\ run[r].save_i <= Len(run[r].ranked_students)
    /\ \E api_ok \in BOOLEAN :
          IF api_ok
          THEN /\ results_sheet' =
                      Append(results_sheet,
                             ResultRow(run[r].ranked_students[run[r].save_i]))
               /\ run' = [run EXCEPT ![r] = [@ EXCEPT !.save_i = @ + 1]]
          ELSE /\ results_sheet' = results_sheet
               /\ run' = [run EXCEPT ![r] = SaveRaise(@)]
    /\ UNCHANGED <<students_sheet, weights_sheet, form_log>>

\* calculate_distribution that returns the scored list, not the ranked one
SaveReturnScored(r) ==
    /\ run[r].pc = "Persisting"
    /\ run[r].save_pc = "rows"
    /\ run[r].save_i > Len(run[r].ranked_students)
    /\ run' = [run EXCEPT ![r] =
                  [@ EXCEPT !.pc = "Done",
                            !.result = run[r].scored_students,
                            !.response = CalculateResponse(TRUE, Len(run[r].scored_students))]]
    /\ UNCHANGED <<students_sheet, weights_sheet, results_sheet, form_log>>

\* save_data returns at the end of the loop; calculate_distribution
\* returns ranked_students and the handler answers with their number
SaveReturn(r) ==
    /\ run[r].pc = "Persisting"
    /\ run[r].save_pc = "rows"
    /\ run[r].save_i > Len(run[r].ranked_students)
    /\ run' = [run EXCEPT ![r] =
                  [@ EXCEPT !.pc = "Done",
                            !.result = run[r].ranked_students,
                            !.response = CalculateResponse(TRUE, Len(run[r].ranked_students))]]
    /\ UNCHANGED <<students_sheet, weights_sheet, results_sheet, form_log>>

\* POST /api/v1/form/submit -> add_student: sheet.append_row(row)
add_student(student_data) ==
    /\ students_sheet' = Append(students_sheet, student_data)
    /\ UNCHANGED <<weights_sheet, results_sheet, run, form_log>>

\* ------------------------------------------------------------ sheet contents
IPMKN == <<"IPMKN">>
IVTS == <<"IVTS">>
Gorny == <<"Gorny">>

StudentRow(fio, institute, svo, chaes, disability, smoking, distance, large_family) ==
    [fio |-> fio, gender |-> <<"M">>, institute |-> institute,
     svo |-> svo, chaes |-> chaes, disability |-> disability,
     smoking |-> smoking, distance |-> distance, large_family |-> large_family]

WeightRow(institute, institute_score, svo, chaes, disability, distance, large_family) ==
    [institute |-> institute, institute_score |-> IntCell(institute_score),
     svo_weight |-> IntCell(svo), chaes_weight |-> IntCell(chaes),
     disability_weight |-> IntCell(disability),
     distance_weight |-> IntCell(distance),
     large_family_weight |-> IntCell(large_family)]

\* the rows a students sheet is made of: a priority student, a regular
\* student whose institute cell is padded, a priority student of a second
\* institute, a student of an institute without weights, a row without a name
StudentSheetRows ==
    { StudentRow(<<"Ivanov">>, IPMKN, IntCell(1), IntCell(0), IntCell(0),
                 IntCell(0), IntCell(250), IntCell(0)),
      StudentRow(<<"Petrov">>, <<" ", "IPMKN">>, IntCell(0), IntCell(0), IntCell(0),
                 IntCell(1), IntCell(500), IntCell(1)),
      StudentRow(<<"Sidorov">>, IVTS, StrCell(<<>>), IntCell(0), BoolCell(TRUE),
                 IntCell(0), IntCell(0), IntCell(0)),
      StudentRow(<<"Orlov">>, Gorny, IntCell(0), IntCell(0), IntCell(0),
                 IntCell(0), IntCell(125), IntCell(0)),
      StudentRow(<<" ">>, IPMKN, IntCell(0), IntCell(0), IntCell(0),
                 IntCell(0), IntCell(0), IntCell(0)) }

\* the rows a weights sheet is made of: two rows of the same institute, a
\* second institute, a row without an institute name
WeightSheetRows ==
    { WeightRow(IPMKN, 10, 5, 3, 6, 4, 2),
      WeightRow(IPMKN, 1, 0, 1, 2, 8, 0),
      WeightRow(IVTS, 3, 1, 1, 1, 0, 1),
      WeightRow(<<>>, 7, 7, 7, 7, 7, 7) }

\* what the results sheet holds before a run: nothing, or an earlier ranking
PriorResults ==
    { <<>>,
      <<headers, <<StrCell(<<"Old">>), StrCell(<<"M">>), IntCell(0), IntCell(0),
                   IntCell(0), IntCell(0), IntCell(0), FloatCell(0), IntCell(0),
                   FloatCell(0), StrCell(<<"Net">>)>> >> }

\* ------------------------------------------------ one run over the sheets
Init ==
    /\ students_sheet \in SeqsUpTo(StudentSheetRows, MaxStudentRows)
    /\ weights_sheet \in SeqsUpTo(WeightSheetRows, MaxWeightRows)
    /\ results_sheet \in PriorResults
    /\ run = [r \in Runs |-> IdleFrame]
    /\ form_log = <<>>

Next ==
    \/ Start(1)
    \/ FetchStudents(1)
    \/ FetchWeights(1)
    \/ Normalize(1)
    \/ Score(1)
    \/ Rank(1)
    \/ SaveClear(1)
    \/ SaveHeaders(1)
    \/ SaveRow(1)
    \/ SaveReturn(1)

Spec == Init /\ [][Next]_vars

\* ------------------------------------- one run whose awaited calls all end
\* sheets made of the rows of two institutes and of the weight rows of one
LiveStudentRows == {row \in StudentSheetRows : row.institute \in {IPMKN, Gorny}}

LiveWeightRows == {row \in WeightSheetRows : row.institute \in {IPMKN, <<>>}}

InitLive ==
    /\ students_sheet \in SeqsUpTo(LiveStudentRows, MaxStudentRows)
    /\ weights_sheet \in SeqsUpTo(LiveWeightRows, MaxWeightRows)
    /\ results_sheet \in PriorResults
    /\ run = [r \in Runs |-> IdleFrame]
    /\ form_log = <<>>

\* a step of a run that has started: the coroutine is resumed when the
\* call it awaits returns or raises
Resume(r) ==
    \/ FetchStudents(r)
    \/ FetchWeights(r)
    \/ Normalize(r)
    \/ Score(r)
    \/ Rank(r)
    \/ SaveClear(r)
    \/ SaveHeaders(r)
    \/ SaveRow(r)
    \/ SaveReturn(r)

SpecLive == InitLive /\ [][Next]_vars /\ WF_vars(Resume(1))

\* ------------------------------------- two requests over the same sheets
\* the students sheet holds at most MaxConcRows rows when the requests
\* arrive and a form submission may add a row while they run
ConcStudentRows ==
    {row \in StudentSheetRows : row.fio \in {<<"Ivanov">>, <<"Sidorov">>}}

SubmittedRows == {row \in StudentSheetRows : row.fio = <<"Petrov">>}

ConcWeightRows == <<WeightRow(IPMKN, 10, 5, 3, 6, 4, 2), WeightRow(IVTS, 3, 1, 1, 1, 0, 1)>>

InitConc ==
    /\ students_sheet \in SeqsUpTo(ConcStudentRows, MaxConcRows)
    /\ weights_sheet = ConcWeightRows
    /\ results_sheet \in PriorResults
    /\ run = [r \in Runs |-> IdleFrame]
    /\ form_log = <<>>

NextConc ==
    \/ \E r \in Runs :
          \/ Start(r)
          \/ FetchStudents(r)
          \/ FetchWeights(r)
          \/ Normalize(r)
          \/ Score(r)
          \/ Rank(r)
          \/ SaveClear(r)
          \/ SaveHeaders(r)
          \/ SaveRow(r)
          \/ SaveReturn(r)
    \/ \E student_data \in SubmittedRows :
          /\ Len(students_sheet) <= MaxConcRows
          /\ add_student(student_data)

SpecConc == InitConc /\ [][NextConc]_vars

\* --------------------------------------- one run over cells of every type
\* what a cell of a binary column may hold: integers in and out of {0, 1},
\* booleans, text with and without a number, a float
FlagCells ==
    {IntCell(n) : n \in -1..MaxFlagCell}
        \cup {BoolCell(TRUE), BoolCell(FALSE), StrCell(<<>>), StrCell(<<"1">>),
              StrCell(<<"x">>), FloatCell(float(1)),
              StrCell(<<" ", "2">>), StrCell(<<"-", "1">>)}

\* the five binary cells of a row: one column holds any cell, the others 0 or 1
FlagVectors ==
    {[i \in 1..5 |-> IF i = k THEN c ELSE d] :
        k \in 1..5, c \in FlagCells, d \in {IntCell(0), IntCell(1)}}

\* what a cell of the distance column may hold
DistanceCells ==
    {IntCell(125 * k) : k \in -1..MaxKmSteps}
        \cup {StrCell(<<"2", "5", "0">>), StrCell(<<"-", "5">>), StrCell(<<>>),
              FloatCell(float(250)), BoolCell(TRUE)}

FlagRows ==
    {StudentRow(<<"Ivanov">>, IPMKN, f[1], f[2], f[3], f[4], IntCell(250), f[5]) :
        f \in FlagVectors}

DistanceRows ==
    {StudentRow(<<"Ivanov">>, IPMKN, IntCell(1), IntCell(0), IntCell(1), IntCell(0),
                c, IntCell(1)) : c \in DistanceCells}

\* what a cell of a coefficient column may hold
CoefCells ==
    {IntCell(n) : n \in -1..MaxCoef}
        \cup {StrCell(<<"-", "3">>), StrCell(<<"x">>), FloatCell(0 - float(2))}

\* the six coefficient cells of a row: one holds any cell, the others a number
CoefVectors ==
    {[i \in 1..6 |-> IF i = k THEN c ELSE d] :
        k \in 1..6, c \in CoefCells, d \in {IntCell(0), IntCell(MaxCoef + 1)}}

CoefRows ==
    {[institute |-> IPMKN, institute_score |-> w[1], svo_weight |-> w[2],
      chaes_weight |-> w[3], disability_weight |-> w[4],
      distance_weight |-> w[5], large_family_weight |-> w[6]] : w \in CoefVectors}

PlainWeights == WeightRow(IPMKN, 1, 1, 1, 1, 1, 1)

\* every students row against one weights row, every weights row against
\* the students rows of every distance
InitCoerce ==
    /\ \E row \in FlagRows \cup DistanceRows, weights \in CoefRows \cup {PlainWeights} :
          /\ row \in DistanceRows \/ weights = PlainWeights
          /\ students_sheet = <<row>>
          /\ weights_sheet = <<weights>>
    /\ results_sheet = <<>>
    /\ run = [r \in Runs |-> IdleFrame]
    /\ form_log = <<>>

NextCoerce ==
    \/ Start(1)
    \/ FetchStudents(1)
    \/ FetchWeights(1)
    \/ Normalize(1)
    \/ Score(1)

SpecCoerce == InitCoerce /\ [][NextCoerce]_vars

\* ------------------------------------------ one run over rows of every kind
\* a row that is kept, a row whose name is padded, a row without a name, a
\* row without an institute, a row whose distance is negative
ParseRows ==
    { StudentRow(<<"Ivanov">>, IPMKN, IntCell(1), IntCell(0), IntCell(0),
                 IntCell(0), IntCell(250), IntCell(0)),
      StudentRow(<<" ", "Egorov", " ">>, IPMKN, IntCell(0), IntCell(0), IntCell(0),
                 IntCell(1), IntCell(125), IntCell(0)),
      StudentRow(<<" ">>, IPMKN, IntCell(0), IntCell(0), IntCell(0),
                 IntCell(0), IntCell(0), IntCell(0)),
      StudentRow(<<"Belov">>, <<" ">>, IntCell(0), IntCell(1), IntCell(0),
                 IntCell(0), IntCell(125), IntCell(0)),
      StudentRow(<<"Negin">>, IPMKN, IntCell(0), IntCell(0), IntCell(0),
                 IntCell(0), IntCell(-125), IntCell(1)) }

InitParse ==
    /\ students_sheet \in SeqsUpTo(ParseRows, MaxParseRows)
    /\ weights_sheet = <<WeightRow(IPMKN, 10, 5, 3, 6, 4, 2)>>
    /\ results_sheet \in PriorResults
    /\ run = [r \in Runs |-> IdleFrame]
    /\ form_log = <<>>

SpecParse == InitParse /\ [][Next]_vars

\* ------------------------------------------- the service over given lists
\* the frame of a call whose two repository reads returned these lists
FrameAfterFetch(students, weights) ==
    [IdleFrame EXCEPT !.pc = "Normalizing",
                      !.raw_students = students,
                      !.raw_weights = weights,
                      !.calls = <<"get_students", "get_institute_weights">>]

NextService ==
    \/ Normalize(1)
    \/ Score(1)
    \/ Rank(1)

InitService(students, weights) ==
    /\ students_sheet = <<>>
    /\ weights_sheet = <<>>
    /\ results_sheet = <<>>
    /\ run = [r \in Runs |-> IF r = 1 THEN FrameAfterFetch(students, weights)
                             ELSE IdleFrame]
    /\ form_log = <<>>

\* an InstituteWeights object
Weights(institute, institute_score, svo, chaes, disability, distance, large_family) ==
    [institute |-> institute, institute_score |-> institute_score,
     svo_weight |-> svo, chaes_weight |-> chaes,
     disability_weight |-> disability, distance_weight |-> distance,
     large_family_weight |-> large_family]

\* a StudentDistribution object
Student(fio, institute, svo, chaes, disability, smoking, distance, large_family) ==
    [fio |-> fio, gender |-> <<"M">>, institute |-> institute,
     svo |-> svo, chaes |-> chaes, disability |-> disability,
     smoking |-> smoking, distance |-> distance, large_family |-> large_family]

Kilometres == {125 * k : k \in 0..MaxDistSteps}

\* --- ranking: lists of students that differ in priority and in distance
FIO == <<"Yakovlev", "Abramov", "Titov", "Belov", "Romanov", "Efimov", "Zuev", "Danilov">>

RankWeights == <<Weights(IPMKN, 0, 1, 0, 0, 4, 0)>>

\* the lists of n students
RankStudents(n) ==
    { [i \in 1..n |-> Student(<<FIO[i]>>, IPMKN, f[i][1], 0, 0, 0, f[i][2], 0)]
      : f \in [1..n -> (0..1) \X Kilometres] }

InitRank ==
    \E n \in 1..MaxRank :
        \E students \in RankStudents(n) : InitService(students, RankWeights)

SpecRank == InitRank /\ [][NextService]_vars

\* --- scoring: one student with any flags, a table with any coefficients
CoefNames == {"institute_score", "svo_weight", "chaes_weight",
              "disability_weight", "distance_weight", "large_family_weight"}

\* two institutes whose coefficients differ in every column
ScoreWeights(c) ==
    <<Weights(IPMKN, c.institute_score, c.svo_weight, c.chaes_weight,
              c.disability_weight, c.distance_weight, c.large_family_weight),
      Weights(IVTS, c.institute_score + 1, c.svo_weight + 2, c.chaes_weight + 3,
              c.disability_weight + 4, c.distance_weight + 8,
              c.large_family_weight + 5)>>

ScoreStudents ==
    { <<Student(<<"Ivanov">>, institute, b[1], b[2], b[3], b[4], km, b[5])>>
      : institute \in {IPMKN, IVTS}, b \in [1..5 -> 0..1], km \in Kilometres }

InitScore ==
    \E students \in ScoreStudents, c \in [CoefNames -> 0..MaxCoef] :
        InitService(students, ScoreWeights(c))

SpecScore == InitScore /\ [][NextService]_vars

\* --- weight table: lists with repeated and with empty institute names
\* (objects as a repository that does not validate its rows returns them)
WeightObjects ==
    { Weights(institute, a, 5 - a, 1, 1, 4, 1)
      : institute \in {<<>>, IPMKN, IVTS}, a \in 0..MaxCoef }

\* the lists of n weight objects
WeightLists(n) == [1..n -> WeightObjects]

TableStudents ==
    <<Student(<<"Ivanov">>, IPMKN, 1, 0, 0, 0, 250, 0),
      Student(<<"Sidorov">>, IVTS, 0, 0, 0, 1, 0, 1)>>

InitWeights ==
    \E n \in 1..MaxWeightList :
        \E weights \in WeightLists(n) : InitService(TableStudents, weights)

SpecWeights == InitWeights /\ [][NextService]_vars

\* --- normalizer: lists of any length, the empty list among them, of
\* objects the normalizer accepts and objects it rejects (objects as a
\* repository that does not validate its rows returns them)
NormObjects ==
    { Student(<<"Ivanov">>, IPMKN, 1, 0, 0, 0, 250, 0),
      Student(<<"Orlov">>, IPMKN, 0, 0, 0, 1, 0, 1),
      Student(<<" ">>, IPMKN, 0, 0, 0, 0, 125, 0),
      Student(<<"Petrov">>, IPMKN, 0, 1, 0, 0, -125, 0) }

\* the lists of n students
NormLists(n) == [1..n -> NormObjects]

InitNormalize ==
    \E n \in 0..MaxNormList :
        \E students \in NormLists(n) : InitService(students, RankWeights)

SpecNormalize == InitNormalize /\ [][NextService]_vars

\* ---------------------------------------------------------- form submission
\* the keys of the choices of the gender and institute questions
MALE_KEY == "9008962931656406"
FEMALE_KEY == "1763676915652"
IPMKN_KEY == "9008962931754798"
IVTS_KEY == "1763677027754"
GORNY_KEY == "1763677032100"
OTHER_KEY == "1763677042468"

Male == <<"M">>
Female == <<"Zh">>
Drugoj == <<"Drugoj">>

\* the stems that occur in the lower-cased text of a segment
Stems(segment) ==
    IF segment = "Muzhskoj" THEN {"muzhsk"}
    ELSE IF segment = "Zhenskij" THEN {"zhensk"}
    ELSE IF segment \in {"IPMKN", "ipmkn"} THEN {"ipmkn"}
    ELSE IF segment \in {"IVTS", "ivts"} THEN {"ivts"}
    ELSE IF segment \in {"Gorny", "gornyj"} THEN {"gorn"}
    ELSE IF segment \in {"Drugoj", "drugoj"} THEN {"drug"}
    ELSE {}

\* stem in text.lower()
in_lower(stem, text) == \E i \in 1..Len(text) : stem \in Stems(text[i])

\* an answer of the form: the question may be left out of answer.data
NoAnswer == [given |-> FALSE]
TextAnswer(value) == [given |-> TRUE, value |-> value]
\* value[0] of a choices answer: {"key": choice_key, "text": text}
ChoiceAnswer(text, choice_key) ==
    [given |-> TRUE, text |-> text, choice_key |-> choice_key]
CellAnswer(cell) == [given |-> TRUE, value |-> cell]

\* the first loop of from_yandex_form_data: fio, svo and distance
parsed_fio(form_data) ==
    IF form_data.fio.given THEN strip(form_data.fio.value) ELSE <<>>

parsed_svo(form_data) ==
    IF form_data.svo.given /\ form_data.svo.value.t = "bool"
    THEN form_data.svo.value.v = 1 ELSE FALSE

parsed_distance(form_data) ==
    IF form_data.distance.given /\ py_int(form_data.distance.value).ok
    THEN py_int(form_data.distance.value).value ELSE 0

\* the gender loop: the choice is recognised by its text or by its key
parsed_gender(form_data) ==
    IF ~form_data.gender.given THEN <<>>
    ELSE LET choice_text_lower == strip(form_data.gender.text)
             choice_key == form_data.gender.choice_key
         IN  IF in_lower("muzhsk", choice_text_lower) \/ choice_key = MALE_KEY
             THEN Male
             ELSE IF in_lower("zhensk", choice_text_lower) \/ choice_key = FEMALE_KEY
             THEN Female
             ELSE <<>>

\* the institute loop: an unrecognised choice keeps its text
parsed_institute(form_data) ==
    IF ~form_data.institute.given THEN <<>>
    ELSE LET choice_text == strip(form_data.institute.text)
             choice_key == form_data.institute.choice_key
         IN  IF choice_key = IPMKN_KEY \/ in_lower("ipmkn", choice_text) THEN IPMKN
             ELSE IF choice_key = IVTS_KEY \/ in_lower("ivts", choice_text) THEN IVTS
             ELSE IF choice_key = GORNY_KEY \/ in_lower("gorn", choice_text) THEN Gorny
             ELSE IF choice_key = OTHER_KEY \/ in_lower("drug", choice_text) THEN Drugoj
             ELSE choice_text

\* field_validator("gender")
normalize_gender(v) ==
    LET v_lower == strip(v)
    IN  IF in_lower("muzhsk", v_lower) \/ v = Male THEN Male
        ELSE IF in_lower("zhensk", v_lower) \/ v = Female THEN Female
        ELSE strip(v)

\* field_validator("institute"): whatever is not one of the three
\* institutes, the empty text included, becomes the fourth
normalize_institute(v) ==
    LET text == strip(v)
    IN  IF in_lower("ipmkn", text) THEN IPMKN
        ELSE IF in_lower("ivts", text) THEN IVTS
        ELSE IF in_lower("gorn", text) THEN Gorny
        ELSE Drugoj

\* cls(fio=..., gender=..., institute=..., ...): the validators run on
\* the values the loops have found
from_yandex_form_data(form_data) ==
    [fio |-> parsed_fio(form_data),
     gender |-> normalize_gender(parsed_gender(form_data)),
     institute |-> normalize_institute(parsed_institute(form_data)),
     svo |-> parsed_svo(form_data),
     distance |-> parsed_distance(form_data)]

to_student_distribution_dict(self) ==
    [fio |-> self.fio, gender |-> self.gender, institute |-> self.institute,
     svo |-> IntCell(IF self.svo THEN 1 ELSE 0), chaes |-> IntCell(0),
     disability |-> IntCell(0), smoking |-> IntCell(0),
     distance |-> IntCell(self.distance), large_family |-> IntCell(0)]

\* the result dictionary of process_yandex_form_submission, with the
\* number of add_student calls made on the way
FormResult(success, error, add_student_calls) ==
    [success |-> success, error |-> error,
     add_student_calls |-> add_student_calls]

\* sheet_ok = FALSE: append_row fails, add_student raises SheetNotFoundError
process_yandex_form_submission(form_data) ==
    LET form_answer == from_yandex_form_data(form_data)
    IN  IF form_answer.fio = <<>> \/ form_answer.gender = <<>>
           \/ form_answer.institute = <<>>
        THEN /\ form_log' = Append(form_log,
                     [form_data |-> form_data,
                      result |-> FormResult(FALSE, "validation_error", 0)])
             /\ UNCHANGED <<students_sheet, weights_sheet, results_sheet, run>>
        ELSE \E sheet_ok \in BOOLEAN :
                 LET student_data == to_student_distribution_dict(form_answer)
                 IN  /\ students_sheet' =
                            IF sheet_ok THEN Append(students_sheet, student_data)
                            ELSE students_sheet
                     /\ form_log' = Append(form_log,
                            [form_data |-> form_data,
                             result |-> IF sheet_ok THEN FormResult(TRUE, "", 1)
                                        ELSE FormResult(FALSE, "processing_error", 1)])
                     /\ UNCHANGED <<weights_sheet, results_sheet, run>>

\* the submissions: a name that is given, blank or left out; a gender
\* recognised by text, by key, not recognised or left out; an institute
\* recognised by text, by key, not listed, blank or left out
FioAnswers ==
    {NoAnswer, TextAnswer(<<>>), TextAnswer(<<" ">>),
     TextAnswer(<<" ", "Ivanov">>)}

GenderAnswers ==
    {NoAnswer, ChoiceAnswer(<<"Muzhskoj">>, ""), ChoiceAnswer(<<"Zhenskij">>, ""),
     ChoiceAnswer(<<"Pol">>, MALE_KEY), ChoiceAnswer(<<"Inoe">>, "")}

InstituteAnswers ==
    {NoAnswer, ChoiceAnswer(<<"ipmkn">>, ""), ChoiceAnswer(<<"Gorny">>, ""),
     ChoiceAnswer(<<"Institut">>, IVTS_KEY), ChoiceAnswer(<<"Fizfak">>, ""),
     ChoiceAnswer(<<" ">>, "")}

OtherAnswers ==
    { [svo |-> CellAnswer(BoolCell(TRUE)), distance |-> CellAnswer(IntCell(250))],
      [svo |-> CellAnswer(IntCell(1)), distance |-> CellAnswer(StrCell(<<"x">>))] }

Forms ==
    { [fio |-> fio, gender |-> gender, institute |-> institute,
       svo |-> other.svo, distance |-> other.distance] :
        fio \in FioAnswers, gender \in GenderAnswers,
        institute \in InstituteAnswers, other \in OtherAnswers }

InitForm ==
    /\ students_sheet = <<>>
    /\ weights_sheet = <<>>
    /\ results_sheet = <<>>
    /\ run = [r \in Runs |-> IdleFrame]
    /\ form_log = <<>>

Submit ==
    \E form_data \in Forms :
        /\ Len(form_log) < MaxSubmissions
        /\ process_yandex_form_submission(form_data)

SpecForm == InitForm /\ [][Submit]_vars

\* ------------------------------------------------------------------ claims
\* the runs whose ranked list has been computed
HasRanked(r) == run[r].pc \in {"Persisting", "Done"}

\* the index of a scored student (names are distinct in RankStudents)
PlaceIn(list, student) == CHOOSE k \in 1..Len(list) : list[k] = student

\* C1: in the ranked list every priority student stands before every
\* non-priority student, whatever their total scores (a priority student
\* of total score 0 stands before a regular student of total score 1000).
C1_PriorityFirst ==
    /\ \A r \in Runs : HasRanked(r) =>
          LET ranked == run[r].ranked_students
          IN  \A i, j \in 1..Len(ranked) :
                 (ranked[i].priority /\ ~ranked[j].priority) => i < j
    /\ LET table == _create_weights_dictionary(
                        <<Weights(IPMKN, 0, 0, 0, 0, 0, 0),
                          Weights(IVTS, 1000, 0, 0, 0, 0, 0)>>)
           low == _calculate_single_student_score(
                      NormalizeOne(Student(<<"A">>, IPMKN, 1, 0, 0, 0, 0, 0)).value,
                      table).value
           high == _calculate_single_student_score(
                       NormalizeOne(Student(<<"B">>, IVTS, 0, 0, 0, 0, 0, 0)).value,
                       table).value
       IN  /\ low.total_score = 0 /\ low.priority
           /\ high.total_score = float(1000) /\ ~high.priority
           /\ _rank_students(<<high, low>>) = <<low, high>>

\* a priority student ranked above a regular student of a higher total score
C1_Witness ==
    /\ HasRanked(1)
    /\ \E i, j \in 1..Len(run[1].ranked_students) :
          /\ i < j
          /\ run[1].ranked_students[i].priority
          /\ ~run[1].ranked_students[j].priority
          /\ run[1].ranked_students[i].total_score
                < run[1].ranked_students[j].total_score

\* C2: ranking is stable: two scored students of equal total score and equal
\* priority keep their input order in the ranked list.
C2_Stable ==
    \A r \in Runs : HasRanked(r) =>
        LET scored == run[r].scored_students
            ranked == run[r].ranked_students
        IN  \A i, j \in 1..Len(scored) :
               (/\ i < j
                /\ scored[i].total_score = scored[j].total_score
                /\ scored[i].priority = scored[j].priority)
               => /\ scored[i] \in {ranked[k] : k \in 1..Len(ranked)}
                  /\ scored[j] \in {ranked[k] : k \in 1..Len(ranked)}
                  /\ PlaceIn(ranked, scored[i]) < PlaceIn(ranked, scored[j])

\* three students of one total score and one priority, ranked
C2_Witness ==
    /\ HasRanked(1)
    /\ \E i, j, k \in 1..Len(run[1].scored_students) :
          /\ i < j /\ j < k
          /\ run[1].scored_students[i].total_score = run[1].scored_students[j].total_score
          /\ run[1].scored_students[j].total_score = run[1].scored_students[k].total_score
          /\ run[1].scored_students[i].priority = run[1].scored_students[j].priority
          /\ run[1].scored_students[j].priority = run[1].scored_students[k].priority

\* C3: within the priority group and within the regular group of the ranked
\* list the total score never increases from front to back.
C3_GroupsDescending ==
    \A r \in Runs : HasRanked(r) =>
        LET ranked == run[r].ranked_students
        IN  \A i, j \in 1..Len(ranked) :
               (i < j /\ ranked[i].priority = ranked[j].priority)
               => ranked[i].total_score >= ranked[j].total_score

\* the scored list held, in both groups, a lower score in front of a higher one
C3_Witness ==
    /\ HasRanked(1)
    /\ \A p \in BOOLEAN :
          \E i, j \in 1..Len(run[1].scored_students) :
             /\ i < j
             /\ run[1].scored_students[i].priority = p
             /\ run[1].scored_students[j].priority = p
             /\ run[1].scored_students[i].total_score
                   < run[1].scored_students[j].total_score

\* the runs whose scored list has been computed
HasScored(r) == run[r].pc \in {"Ranking", "Persisting", "Done"}

\* the weight record that counts for an institute: the last one of that name
HasEntry(r, institute) ==
    /\ institute # <<>>
    /\ \E i \in 1..Len(run[r].raw_weights) : run[r].raw_weights[i].institute = institute

EntryOf(r, institute) ==
    LET last == CHOOSE i \in 1..Len(run[r].raw_weights) :
                   /\ run[r].raw_weights[i].institute = institute
                   /\ \A j \in (i + 1)..Len(run[r].raw_weights) :
                         run[r].raw_weights[j].institute # institute
    IN  run[r].raw_weights[last]

\* the fetched students whose institute has a weight record, in input order
Scorable(r) ==
    LET Has(student) == HasEntry(r, student.institute)
    IN  SelectSeq(run[r].raw_students, Has)

\* C4: a scored student's sub-scores are flag * weight of the student's own
\* institute entry, smoking counts 1 whatever the institute, the distance
\* score is km / 500 * distance weight, and the total is the base score plus
\* the six sub-scores (scenario A: base 10, svo 5, distance weight 4,
\* 250 km, service: distance score 2, total 17).
C4_ScoreFormula ==
    /\ \A r \in Runs : HasScored(r) =>
          /\ Len(run[r].scored_students) = Len(Scorable(r))
          /\ \A k \in 1..Len(run[r].scored_students) :
                LET s == run[r].scored_students[k]
                    student == Scorable(r)[k]
                    w == EntryOf(r, student.institute)
                IN  /\ s.institute_score = w.institute_score
                    /\ s.svo_score = student.svo * w.svo_weight
                    /\ s.chaes_score = student.chaes * w.chaes_weight
                    /\ s.disability_score = student.disability * w.disability_weight
                    /\ s.smoking_score = student.smoking
                    /\ s.distance_score * DISTANCE_NORMALIZATION_FACTOR
                          = float(student.distance * w.distance_weight)
                    /\ s.large_family_score = student.large_family * w.large_family_weight
                    /\ s.total_score = float(w.institute_score + s.svo_score
                                             + s.chaes_score + s.disability_score
                                             + s.smoking_score + s.large_family_score)
                                       + s.distance_score
    /\ LET a == _calculate_single_student_score(
                    NormalizeOne(Student(<<"A">>, IPMKN, 1, 0, 0, 0, 250, 0)).value,
                    _create_weights_dictionary(<<Weights(IPMKN, 10, 5, 0, 0, 4, 0)>>)).value
       IN  /\ a.svo_score = 5
           /\ a.distance_score = float(2)
           /\ a.total_score = float(17)

\* a student of the second institute with every flag set and a distance
\* that is not a multiple of 500 km has been scored
C4_Witness ==
    /\ HasScored(1)
    /\ Len(run[1].scored_students) = 1
    /\ run[1].raw_students[1].institute = IVTS
    /\ run[1].scored_students[1].svo_score > 0
    /\ run[1].scored_students[1].chaes_score > 0
    /\ run[1].scored_students[1].disability_score > 0
    /\ run[1].scored_students[1].smoking_score = 1
    /\ run[1].scored_students[1].large_family_score > 0
    /\ run[1].scored_students[1].distance_score > 0
    /\ run[1].raw_students[1].distance = 125

\* C5: the priority flag of a scored student is true exactly when the
\* student's svo, chaes or disability flag is set; nothing else counts.
C5_PriorityFlag ==
    \A r \in Runs : HasScored(r) =>
        /\ Len(run[r].scored_students) = Len(Scorable(r))
        /\ \A k \in 1..Len(run[r].scored_students) :
              run[r].scored_students[k].priority
                 <=> (\/ Scorable(r)[k].svo = 1
                      \/ Scorable(r)[k].chaes = 1
                      \/ Scorable(r)[k].disability = 1)

\* a disabled student who is the priority student for that flag alone, with
\* no score from smoking, family or distance
C5_Witness ==
    /\ HasScored(1)
    /\ Len(run[1].scored_students) = 1
    /\ run[1].scored_students[1].priority
    /\ run[1].raw_students[1].svo = 0
    /\ run[1].raw_students[1].chaes = 0
    /\ run[1].raw_students[1].disability = 1
    /\ run[1].raw_students[1].smoking = 0
    /\ run[1].raw_students[1].large_family = 0

\* the runs whose scoring stage has run, whatever came of it
ScoringRan(r) ==
    /\ run[r].pc \in {"Ranking", "Persisting", "Done", "Failed"}
    /\ run[r].normalized_students # <<>>

\* the normalized students whose institute has a weight record, in input order
ScorableNormalized(r) ==
    LET Has(student) == HasEntry(r, student.institute)
    IN  SelectSeq(run[r].normalized_students, Has)

ScoringFailure == <<"CalculationError", "CalculationError">>

\* C6: the scored list is exactly the input students whose institute has a
\* weight entry, in input order; every other student counts as one failure;
\* scoring fails the run only when no student is left.
C6_PartialFailure ==
    \A r \in Runs : ScoringRan(r) =>
        LET kept == ScorableNormalized(r)
            scored == run[r].scored_students
        IN  /\ run[r].calculation_errors
                  = Len(run[r].normalized_students) - Len(kept)
            /\ IF kept = <<>>
               THEN /\ run[r].pc = "Failed"
                    /\ run[r].error = ScoringFailure
                    /\ scored = <<>>
               ELSE /\ run[r].error # ScoringFailure
                    /\ Len(scored) = Len(kept)
                    /\ \A k \in 1..Len(kept) :
                          /\ scored[k].fio = kept[k].fio
                          /\ scored[k].gender = kept[k].gender

\* scenario B: three students, one of an institute without weights; the run
\* ends with two scored students and one counted failure
C6_Witness ==
    /\ run[1].pc = "Done"
    /\ Len(run[1].normalized_students) = 3
    /\ Len(run[1].result) = 2
    /\ run[1].calculation_errors = 1
    /\ run[1].normalized_students[2].institute = Gorny

\* C7: when no student can be scored the run cannot succeed: it ends in
\* Failed with a CalculationError, save_ranking is not called and the
\* results sheet is untouched; and no student is scored without an entry
\* of its institute.
C7_NothingScorable ==
    \A r \in Runs :
        /\ Len(run[r].scored_students) <= Len(ScorableNormalized(r))
        /\ ScorableNormalized(r) = <<>> =>
              /\ run[r].pc \notin {"Ranking", "Persisting", "Done"}
              /\ \A i \in 1..Len(run[r].calls) : run[r].calls[i] # "save_ranking"
              /\ run[r].result = <<>>
              /\ run[r].pc = "Failed" =>
                    /\ Head(run[r].error) = "CalculationError"
                    /\ results_sheet = run[r].sink_before

\* scenario C: the weights sheet has rows, none with an institute name, the
\* students sheet has a valid student, and the run has failed
C7_Witness ==
    /\ run[1].pc = "Failed"
    /\ run[1].raw_students # <<>>
    /\ Len(weights_sheet) = 2
    /\ \A i \in 1..Len(weights_sheet) : strip(weights_sheet[i].institute) = <<>>
    /\ run[1].calls = <<"get_students", "get_institute_weights">>

\* the runs whose weight table has been built
HasTable(r) == run[r].pc \in {"Scoring", "Ranking", "Persisting", "Done"}

\* C8: the weight table maps every non-empty institute name of the input to
\* the last input record of that name, and has no other key.
C8_LastWriteWins ==
    \A r \in Runs : HasTable(r) =>
        /\ DOMAIN run[r].weights_dict
              = {run[r].raw_weights[i].institute : i \in 1..Len(run[r].raw_weights)}
                \ {<<>>}
        /\ \A institute \in DOMAIN run[r].weights_dict :
              run[r].weights_dict[institute] = EntryOf(r, institute)

\* a table built from two different records of one institute and a record
\* without a name
C8_Witness ==
    /\ HasTable(1)
    /\ \E i, j, k \in 1..Len(run[1].raw_weights) :
          /\ i < j
          /\ run[1].raw_weights[i].institute = run[1].raw_weights[j].institute
          /\ run[1].raw_weights[i].institute # <<>>
          /\ run[1].raw_weights[i] # run[1].raw_weights[j]
          /\ run[1].raw_weights[k].institute = <<>>

\* the order of the stages of one run
StageSteps ==
    { <<"Idle", "FetchingStudents">>, <<"FetchingStudents", "FetchingWeights">>,
      <<"FetchingWeights", "Normalizing">>, <<"Normalizing", "Scoring">>,
      <<"Scoring", "Ranking">>, <<"Ranking", "Persisting">>,
      <<"Persisting", "Done">> }
    \cup { <<stage, "Failed">> :
           stage \in {"FetchingStudents", "FetchingWeights", "Normalizing",
                      "Scoring", "Ranking", "Persisting"} }

CallOrder == <<"get_students", "get_institute_weights", "save_ranking">>

\* C9: the stages of a run follow the order fetch students, fetch weights,
\* normalize, score, rank, persist; the repository is called in that order,
\* save_ranking at most once and only with a ranked list; a failed run does
\* nothing more.
C9_StageOrder ==
    /\ [](\A r \in Runs :
            /\ Len(run[r].calls) <= Len(CallOrder)
            /\ run[r].calls = SubSeq(CallOrder, 1, Len(run[r].calls))
            /\ Len(run[r].calls) = 3 =>
                  /\ run[r].pc \in {"Persisting", "Done", "Failed"}
                  /\ run[r].ranked_students # <<>>
                  /\ run[r].ranked_students = _rank_students(run[r].scored_students))
    /\ [][\A r \in Runs :
            /\ run[r].pc' # run[r].pc => <<run[r].pc, run[r].pc'>> \in StageSteps
            /\ run[r].pc = "Failed" => run[r]' = run[r]
            /\ Len(run[r].calls') > Len(run[r].calls) => run[r].pc # "Failed"]_vars
    /\ [][(\A r \in Runs : run[r].pc \in {"Idle", "Done", "Failed"})
             => results_sheet' = results_sheet]_vars

\* a run has failed while saving, after its three repository calls
C9_Witness ==
    /\ run[1].pc = "Failed"
    /\ run[1].calls = CallOrder
    /\ run[1].save_pc = "rows"
    /\ run[1].save_i = 2

\* C10: a run that ends in Failed leaves the results sheet as it was when
\* the run began.
C10_NoPartialPersistence ==
    \A r \in Runs : run[r].pc = "Failed" => results_sheet = run[r].sink_before

\* ----------------------------------------------------- failures of a run
\* why a failed run failed, read off what the run did: the source it read
\* had no records, every record of the source was rejected by validation,
\* or the results sheet rejected a call of save_data
Cause(r) ==
    IF "save_ranking" \in {run[r].calls[k] : k \in 1..Len(run[r].calls)}
    THEN "sink rejected"
    ELSE IF Tail(run[r].error) = <<"DataValidationError">>
    THEN "source empty"
    ELSE IF Tail(run[r].error) = <<"SheetNotFoundError", "DataValidationError">>
    THEN "all rejected"
    ELSE "other"

TypedCauses == {"source empty", "all rejected", "sink rejected"}

\* the exception class calculate_distribution raises to its caller
Category(r) == Head(run[r].error)

\* the class the caller receives for a failure of the given cause
SurfacedAs(cause) ==
    CASE cause = "source empty" ->
            Head(Raise(IdleFrame, <<"DataValidationError">>).error)
      [] cause = "all rejected" ->
            Head(Raise(IdleFrame, <<"SheetNotFoundError", "DataValidationError">>).error)
      [] cause = "sink rejected" ->
            Head(SaveRaise(IdleFrame).error)

\* C11: the failure a failed run raises to its caller is typed by its cause:
\* an empty source, a source whose records were all rejected and a rejected
\* write have three different categories, so the category of a failure is
\* never the category raised for one of the other two causes
C11_TypedByCause ==
    \A r \in Runs :
        (run[r].pc = "Failed" /\ Cause(r) \in TypedCauses) =>
            \A other \in TypedCauses \ {Cause(r)} :
                Category(r) # SurfacedAs(other)

\* C13: an empty required source aborts the run: when the students sheet
\* has no records the run fails having called get_students only; when the
\* weights sheet has no records the run fails before any student is
\* normalized; in both cases save_ranking is not called and the results
\* sheet is as it was
C13_EmptySourceAborts ==
    \A r \in Runs :
        /\ (students_sheet = <<>> /\ run[r].pc \notin {"Idle", "FetchingStudents"}) =>
              /\ run[r].pc = "Failed"
              /\ run[r].calls = <<"get_students">>
              /\ run[r].raw_weights = <<>>
              /\ run[r].normalized_students = <<>>
              /\ results_sheet = run[r].sink_before
        /\ (weights_sheet = <<>>
              /\ run[r].pc \notin {"Idle", "FetchingStudents", "FetchingWeights"}) =>
              /\ run[r].pc = "Failed"
              /\ run[r].calls \in {<<"get_students">>,
                                   <<"get_students", "get_institute_weights">>}
              /\ run[r].normalized_students = <<>>
              /\ run[r].scored_students = <<>>
              /\ results_sheet = run[r].sink_before

\* a run whose students were read and which an empty weights sheet stopped,
\* over a results sheet that holds an earlier ranking
C13_Witness ==
    /\ run[1].pc = "Failed"
    /\ run[1].error = <<"CalculationError", "DataValidationError">>
    /\ weights_sheet = <<>>
    /\ Len(run[1].raw_students) >= 2
    /\ run[1].calls = <<"get_students", "get_institute_weights">>
    /\ results_sheet # <<>>

\* C14: when save_ranking has completed, the results sheet is the header
\* row followed by one row per ranked student in the order of the ranked
\* list, and nothing of what the sheet held before
C14_SheetIsRanking ==
    \A r \in Runs :
        run[r].pc = "Done" =>
            /\ Len(results_sheet) = 1 + Len(run[r].ranked_students)
            /\ results_sheet[1] = headers
            /\ \A k \in 1..Len(run[r].ranked_students) :
                  LET row == results_sheet[k + 1]
                      student == run[r].ranked_students[k]
                  IN  /\ row[1] = StrCell(student.fio)
                      /\ row[3] = IntCell(student.institute_score)
                      /\ row[10] = FloatCell(round2(student.total_score))
                      /\ row = ResultRow(student)

\* a ranking of two students saved over an earlier ranking
C14_Witness ==
    /\ run[1].pc = "Done"
    /\ run[1].sink_before # <<>>
    /\ Len(run[1].ranked_students) >= 2
    /\ run[1].ranked_students[1].fio # run[1].ranked_students[2].fio

\* ------------------------------------------------------ the end of a run
Terminal == {"Done", "Failed"}

\* C12: a run that has started, and whose awaited calls each return or
\* raise, ends: it returns the ranked list, and then save_ranking was
\* called and every row was written, or it raises one CalculationError and
\* returns nothing; before the end there is neither a result nor an error,
\* and the outcome, once reached, does not change
C12_OneOutcome ==
    /\ (run[1].pc # "Idle") ~> (run[1].pc \in Terminal)
    /\ [](\A r \in Runs :
            /\ run[r].pc = "Done" =>
                  /\ run[r].result = run[r].ranked_students
                  /\ run[r].result # <<>>
                  /\ run[r].error = <<>>
                  /\ run[r].calls = CallOrder
                  /\ run[r].save_pc = "rows"
                  /\ run[r].save_i = Len(run[r].ranked_students) + 1
            /\ run[r].pc = "Failed" =>
                  /\ run[r].result = <<>>
                  /\ Len(run[r].error) >= 2
                  /\ Head(run[r].error) = "CalculationError"
            /\ run[r].pc \notin Terminal =>
                  /\ run[r].result = <<>>
                  /\ run[r].error = <<>>)
    /\ [][\A r \in Runs : run[r].pc \in Terminal => run'[r] = run[r]]_vars

\* a run that returned a ranking of two students
C12_Witness ==
    /\ run[1].pc = "Done"
    /\ Len(run[1].result) >= 2
    /\ run[1].sink_before # <<>>

\* ------------------------------------------------ runs sharing the sheets
\* what save_data of run r writes when nothing else writes
Output(r) ==
    <<headers>> \o [k \in 1..Len(run[r].ranked_students) |->
                        ResultRow(run[r].ranked_students[k])]

CalledSave(q) == "save_ranking" \in {run[q].calls[k] : k \in 1..Len(run[q].calls)}

\* run r saved last and on its own: every other run that has called
\* save_ranking had left save_data when run r entered it
SavedLastAlone(r) ==
    /\ run[r].pc = "Done"
    /\ ~run[r].raced
    /\ \A q \in Runs \ {r} : CalledSave(q) => q \in run[r].save_after

\* C15: when the saves of the runs are serialized, the results sheet after
\* the later save is exactly that run's header row and ranked rows; when
\* the clear and append calls of two saves interleave, a sheet that is the
\* complete output of neither run is reachable (C15_Witness)
C15_SerializedSaves ==
    \A r \in Runs : SavedLastAlone(r) => results_sheet = Output(r)

\* both runs returned, their saves interleaved, and the sheet holds two
\* header rows and is the output of neither
C15_Witness ==
    /\ \A r \in Runs : run[r].pc = "Done"
    /\ \E r \in Runs : run[r].raced
    /\ \A r \in Runs : results_sheet # Output(r)
    /\ Len(results_sheet) >= 2
    /\ results_sheet[1] = headers
    /\ results_sheet[2] = headers

\* the ranked list the stages compute from the given fetched records
RankingOf(students, weights) ==
    _rank_students(
        _calculate_student_scores(_normalize_student_data(students).value,
                                  _create_weights_dictionary(weights)).value)

\* C16: the ranked list of a run is determined by the student and weight
\* records the run itself fetched: it is the ranking of those records, two
\* runs that fetched the same records have the same list, and a step of one
\* run changes nothing in the frame of another
C16_OwnDataOnly ==
    /\ [](\A r \in Runs :
            /\ HasRanked(r) =>
                  run[r].ranked_students =
                      RankingOf(run[r].raw_students, run[r].raw_weights)
            /\ run[r].pc = "Done" =>
                  run[r].result = RankingOf(run[r].raw_students, run[r].raw_weights))
    /\ [](\A r, q \in Runs :
            (/\ HasRanked(r) /\ HasRanked(q)
             /\ run[r].raw_students = run[q].raw_students
             /\ run[r].raw_weights = run[q].raw_weights) =>
                run[r].ranked_students = run[q].ranked_students)
    /\ [][\A r, q \in Runs :
            (r # q /\ run'[r] # run[r]) =>
                (run'[q].pc = run[q].pc /\ run'[q].result = run[q].result
                 /\ run'[q].ranked_students = run[q].ranked_students
                 /\ run'[q].raw_students = run[q].raw_students
                 /\ run'[q].raw_weights = run[q].raw_weights)]_vars

\* two runs that returned: the second fetched a students sheet to which a
\* row had been added and returned a different list
C16_Witness ==
    /\ \A r \in Runs : run[r].pc = "Done"
    /\ run[1].raw_students # run[2].raw_students
    /\ Len(run[1].result) < Len(run[2].result)
    /\ run[2].raced

\* ------------------------------------------------- coercion of the cells
\* the runs whose students have been normalized
HasNormalized(r) == run[r].normalized_students # <<>>

\* C17: the distance of a normalized student is the coerced distance of the
\* record in km divided by 500 and is never negative: 0 km gives 0, 250 km
\* one half, 500 km one, and more than 500 km more than one, without a cap
C17_DistanceFraction ==
    /\ \A r \in Runs : HasNormalized(r) =>
          /\ Len(run[r].normalized_students) = Len(run[r].raw_students)
          /\ \A k \in 1..Len(run[r].normalized_students) :
                LET km == run[r].raw_students[k].distance
                    fraction == run[r].normalized_students[k].distance
                IN  /\ km >= 0
                    /\ fraction >= 0
                    /\ fraction * DISTANCE_NORMALIZATION_FACTOR = float(km)
                    /\ km = 0 => fraction = 0
                    /\ km = 250 => 2 * fraction = float(1)
                    /\ km = 500 => fraction = float(1)
                    /\ km > 500 => fraction > float(1)
    /\ NormalizeOne(Student(<<"A">>, IPMKN, 0, 0, 0, 0, 1500, 0)).value.distance
          = float(3)

\* a record of more than 500 km read from an integer cell and normalized
C17_Witness ==
    /\ HasNormalized(1)
    /\ students_sheet[1].distance = IntCell(625)
    /\ run[1].raw_students[1].distance = 625
    /\ run[1].normalized_students[1].distance > float(1)

\* C18: the five flags of a record survive the round trip: the stored 0 or
\* 1 turned into a boolean by the normalizer and the boolean turned back
\* into 1 or 0 is the stored value again
C18_FlagRoundTrip ==
    \A r \in Runs : HasNormalized(r) =>
        /\ Len(run[r].normalized_students) = Len(run[r].raw_students)
        /\ \A k \in 1..Len(run[r].normalized_students) :
              LET stored == run[r].raw_students[k]
                  student == run[r].normalized_students[k]
                  Back(b) == IF b THEN 1 ELSE 0
              IN  /\ Back(student.svo) = stored.svo
                  /\ Back(student.chaes) = stored.chaes
                  /\ Back(student.disability) = stored.disability
                  /\ Back(student.smoking) = stored.smoking
                  /\ Back(student.large_family) = stored.large_family

\* a record whose flags are not all alike: smoking stored as 0 from a cell
\* that is not 0, the other four stored as 1
C18_Witness ==
    /\ HasNormalized(1)
    /\ students_sheet[1].smoking \notin {IntCell(0), IntCell(1)}
    /\ run[1].raw_students[1].smoking = 0
    /\ ~run[1].normalized_students[1].smoking
    /\ run[1].normalized_students[1].svo
    /\ run[1].normalized_students[1].chaes
    /\ run[1].normalized_students[1].disability
    /\ run[1].normalized_students[1].large_family

\* C19: every scored student has a total score, and sub-scores, of at
\* least 0 whatever cells the flags, the distance and the coefficients were
\* read from, so ScoredStudent rejects no computed score: the students left
\* out by the scoring stage are those whose institute has no weight record
C19_ScoreNotNegative ==
    \A r \in Runs :
        /\ HasScored(r) =>
              \A k \in 1..Len(run[r].scored_students) :
                  LET s == run[r].scored_students[k]
                  IN  /\ s.total_score >= 0
                      /\ s.institute_score >= 0
                      /\ s.svo_score >= 0
                      /\ s.chaes_score >= 0
                      /\ s.disability_score >= 0
                      /\ s.smoking_score >= 0
                      /\ s.distance_score >= 0
                      /\ s.large_family_score >= 0
        /\ ScoringRan(r) =>
              run[r].calculation_errors =
                  Len(run[r].normalized_students) - Len(ScorableNormalized(r))

\* a student with the service flag scored against a weights row whose
\* service cell holds a negative number
C19_Witness ==
    /\ HasScored(1)
    /\ weights_sheet[1].svo_weight = IntCell(-1)
    /\ run[1].raw_students[1].svo = 1
    /\ run[1].raw_students[1].distance > 0
    /\ run[1].scored_students[1].svo_score = 0
    /\ run[1].scored_students[1].total_score = 0

\* --------------------------------------------------- records that are skipped
NameEmpty(row) == strip(row.fio) = <<>>

InstituteEmpty(row) == strip(row.institute) = <<>>

DistanceNegative(row) == py_int(row.distance).ok /\ py_int(row.distance).value < 0

\* the rows the repository has to keep
Passes(row) == ~NameEmpty(row) /\ ~InstituteEmpty(row)

\* the rows that would be kept if a negative distance were a reason to skip
PassesUnlessNegative(row) == Passes(row) /\ ~DistanceNegative(row)

\* the names of the students of a list
Names(students) == {students[k].fio : k \in 1..Len(students)}

\* the names in the first column of the rows below the header
SavedNames == {results_sheet[k][1].s : k \in 2..Len(results_sheet)}

\* the normalized students of run r are the rows of kept, in order, and the
\* rows left out are counted and are in no later list and no saved row
NormalizedAre(r, kept) ==
    /\ Len(run[r].normalized_students) = Len(kept)
    /\ \A k \in 1..Len(kept) : run[r].normalized_students[k].fio = strip(kept[k].fio)
    /\ run[r].parse_errors = Len(students_sheet) - Len(kept)
    /\ Names(run[r].scored_students) \subseteq Names(run[r].normalized_students)
    /\ Names(run[r].ranked_students) \subseteq Names(run[r].normalized_students)
    /\ run[r].pc = "Done" => SavedNames \subseteq Names(run[r].normalized_students)

\* run r failed because the repository could parse none of the rows
NothingParsed(r) ==
    /\ run[r].pc = "Failed"
    /\ run[r].error = <<"CalculationError", "SheetNotFoundError", "DataValidationError">>
    /\ run[r].calls = <<"get_students">>

\* C20 as stated: the normalized students are, in input order, the rows
\* whose name and institute are not empty after trimming and whose
\* distance is not negative; every other row is skipped and counted
C20_SkipsNegativeDistance ==
    \A r \in Runs :
        /\ HasNormalized(r) =>
              NormalizedAre(r, SelectSeq(students_sheet, PassesUnlessNegative))
        /\ NothingParsed(r) => SelectSeq(students_sheet, PassesUnlessNegative) = <<>>

\* C20: the normalized students are, in input order, the rows whose name
\* and institute are not empty after trimming; the other rows are skipped,
\* counted, and are in no later list and no saved row; a negative distance
\* is no reason to skip: the row is kept with the distance 0; the run fails
\* for want of records only when no row is kept
C20_SkipsEmptyNames ==
    \A r \in Runs :
        /\ HasNormalized(r) =>
              /\ NormalizedAre(r, SelectSeq(students_sheet, Passes))
              /\ \A k \in 1..Len(run[r].normalized_students) :
                    DistanceNegative(SelectSeq(students_sheet, Passes)[k]) =>
                        run[r].normalized_students[k].distance = 0
        /\ NothingParsed(r) => SelectSeq(students_sheet, Passes) = <<>>

\* a saved ranking of a sheet of two rows: the row without an institute is
\* left out and the row of negative distance is in the ranking
C20_Witness ==
    /\ run[1].pc = "Done"
    /\ Len(students_sheet) = 2
    /\ \E k \in 1..2 : InstituteEmpty(students_sheet[k])
    /\ \E k \in 1..2 : DistanceNegative(students_sheet[k])
    /\ run[1].parse_errors = 1
    /\ SavedNames = {<<"Negin">>}

\* ------------------------------------------------ failure of the normalizer
\* a student the normalizer keeps: NormalizedStudent accepts the name and
\* the distance
Survives(student) == strip(student.fio) # <<>> /\ student.distance >= 0

\* the normalizing stage of run r has run
NormalizingRan(r) == run[r].pc # "Idle" /\ run[r].pc # "Normalizing"

\* _normalize_student_data raised in run r
NormalizingFailed(r) ==
    /\ run[r].pc = "Failed"
    /\ run[r].error = <<"CalculationError", "DataValidationError">>
    /\ run[r].normalized_students = <<>>

FlagColumns == {"svo", "chaes", "disability", "smoking", "large_family"}

\* what a cell of a binary column is to be stored as: a boolean as 1 or 0,
\* a value int() converts as 0 when it is at most 0 and 1 when it is at
\* least 1, any other value as 0
Coerced(c) ==
    IF c.t = "bool" THEN (IF c = BoolCell(TRUE) THEN 1 ELSE 0)
    ELSE IF ~py_int(c).ok THEN 0
    ELSE IF py_int(c).value <= 0 THEN 0 ELSE 1

\* the students of run r have been read from the sheet
HasStudents(r) == run[r].raw_students # <<>>

\* C22: each of the five binary columns is coerced into {0, 1}: a boolean
\* becomes 1 or 0, a value that converts to an integer is clamped, a value
\* that does not convert becomes 0; every stored flag is 0 or 1 and no
\* record is rejected for the cell of a binary column
C22_FlagsCoerced ==
    \A r \in Runs :
        /\ HasStudents(r) =>
              /\ Len(run[r].raw_students) = Len(students_sheet)
              /\ \A k \in 1..Len(run[r].raw_students), column \in FlagColumns :
                    LET cell == students_sheet[k][column]
                        stored == run[r].raw_students[k][column]
                    IN  /\ stored \in {0, 1}
                        /\ stored = Coerced(cell)
                        /\ cell \in {IntCell(-1), IntCell(0), BoolCell(FALSE),
                                     StrCell(<<>>), StrCell(<<"x">>),
                                     StrCell(<<"-", "1">>)} => stored = 0
                        /\ cell \in {IntCell(1), IntCell(2), BoolCell(TRUE),
                                     StrCell(<<"1">>), StrCell(<<" ", "2">>),
                                     FloatCell(float(1))} => stored = 1
        /\ ~NothingParsed(r)

\* a record read from a row whose disability cell holds the integer 2 and
\* whose other binary cells hold 0
C22_Witness ==
    /\ HasStudents(1)
    /\ students_sheet[1].disability = IntCell(2)
    /\ students_sheet[1].svo = IntCell(0)
    /\ run[1].raw_students[1].disability = 1
    /\ run[1].raw_students[1].svo = 0

\* ------------------------------------------------------ ranking keeps all
\* how often x occurs in a list
Occurrences(list, x) == Cardinality({i \in 1..Len(list) : list[i] = x})

\* C23: the ranked list is a permutation of the scored list: every scored
\* student is in it exactly as often as in the scored list, none is dropped
\* or doubled, and the two lists are of the same length
C23_RankedIsPermutation ==
    \A r \in Runs : HasRanked(r) =>
        /\ Len(run[r].ranked_students) = Len(run[r].scored_students)
        /\ \A k \in 1..Len(run[r].scored_students) :
              Occurrences(run[r].ranked_students, run[r].scored_students[k])
                 = Occurrences(run[r].scored_students, run[r].scored_students[k])
        /\ \A k \in 1..Len(run[r].ranked_students) :
              \E i \in 1..Len(run[r].scored_students) :
                  run[r].scored_students[i] = run[r].ranked_students[k]

\* a ranking of four students, two of each group, that is not in the order
\* of the scored list
C23_Witness ==
    /\ HasRanked(1)
    /\ Len(run[1].scored_students) = 4
    /\ Cardinality({i \in 1..4 : run[1].scored_students[i].priority}) = 2
    /\ ~run[1].scored_students[1].priority
    /\ run[1].ranked_students # run[1].scored_students

\* ------------------------------------------- what is returned and stored
\* C24: on a successful run the list returned to the caller is the list
\* handed to save_ranking, in the same order: the rows of the sheet are
\* the rows of the returned students one by one, and the students_count of
\* the response is the number of those rows; a failed run answers with
\* success = false and a count of 0
C24_ReturnedIsSaved ==
    \A r \in Runs :
        /\ run[r].pc = "Done" =>
              /\ run[r].result = run[r].ranked_students
              /\ Len(results_sheet) = Len(run[r].result) + 1
              /\ \A k \in 1..Len(run[r].result) :
                    results_sheet[k + 1] = ResultRow(run[r].result[k])
              /\ run[r].response.sent
              /\ run[r].response.success
              /\ run[r].response.students_count = Len(run[r].result)
              /\ run[r].response.students_count = Len(results_sheet) - 1
        /\ run[r].pc = "Failed" =>
              /\ run[r].result = <<>>
              /\ run[r].response = [sent |-> TRUE, success |-> FALSE, students_count |-> 0]
        /\ run[r].pc \notin {"Done", "Failed"} => ~run[r].response.sent

\* a run that returned two students in another order than they were scored
C24_Witness ==
    /\ run[1].pc = "Done"
    /\ Len(run[1].result) = 2
    /\ run[1].result # run[1].scored_students
    /\ run[1].response.students_count = 2
    /\ run[1].sink_before # <<>>

\* ------------------------------------------------- nothing empty is saved
\* C25: save_ranking is never called with an empty list: a run in the
\* persisting stage, or one that has called save_ranking, has scored and
\* ranked at least one student, and a run that returned has left a sheet
\* with at least one row below the header
C25_NeverSavesEmpty ==
    \A r \in Runs :
        /\ (run[r].pc = "Persisting" \/ CalledSave(r)) =>
              /\ run[r].scored_students # <<>>
              /\ run[r].ranked_students # <<>>
        /\ run[r].pc = "Done" =>
              /\ Len(results_sheet) >= 2
              /\ results_sheet # <<headers>>

\* a run that saved although one of its students could not be scored
C25_Witness ==
    /\ run[1].pc = "Done"
    /\ run[1].calculation_errors = 1
    /\ Len(run[1].normalized_students) = 2
    /\ Len(results_sheet) = 2

\* ------------------------------------------- the order of ScoredStudent
\* C27: the order ScoredStudent.__lt__ defines agrees with the ranker: the
\* scored list sorted stably by __lt__ (priority first, then the higher
\* total score first) is the list _rank_students returns
C27_LtAgreesWithRanker ==
    \A r \in Runs : HasRanked(r) =>
        /\ run[r].ranked_students = py_sorted(run[r].scored_students)
        /\ \A i, j \in 1..Len(run[r].ranked_students) :
              i < j => ~__lt__(run[r].ranked_students[j], run[r].ranked_students[i])

\* a ranking of four students of both groups in which two students of one
\* group have the same total score, not in the order of the scored list
C27_Witness ==
    /\ HasRanked(1)
    /\ Len(run[1].ranked_students) = 4
    /\ run[1].ranked_students # run[1].scored_students
    /\ run[1].ranked_students[1].priority
    /\ ~run[1].ranked_students[4].priority
    /\ \E i \in 1..3 :
          /\ run[1].ranked_students[i].priority = run[1].ranked_students[i + 1].priority
          /\ run[1].ranked_students[i].total_score = run[1].ranked_students[i + 1].total_score


\* the name, the gender and the institute answer as the submission gives them
HasName(form_data) == parsed_fio(form_data) # <<>>
HasGender(form_data) == parsed_gender(form_data) # <<>>
HasInstitute(form_data) == parsed_institute(form_data) # <<>>
Complete(form_data) ==
    HasName(form_data) /\ HasGender(form_data) /\ HasInstitute(form_data)

\* C26: a submission is saved (one add_student call, success, one row more)
\* only when it has a name, a gender and an institute answer; a submission
\* missing any of the three is rejected with validation_error and
\* add_student is not called
C26_RejectsIncomplete ==
    /\ Len(students_sheet) =
           Cardinality({i \in 1..Len(form_log) : form_log[i].result.success})
    /\ \A i \in 1..Len(form_log) :
           LET form_data == form_log[i].form_data
               result == form_log[i].result
           IN  /\ result.success =>
                      Complete(form_data) /\ result.add_student_calls = 1
               /\ ~Complete(form_data) =>
                      /\ ~result.success
                      /\ result.error = "validation_error"
                      /\ result.add_student_calls = 0

=============================================================================
